---- MODULE Spec2Model ----
(***************************************************************************)
(* Model of the e-commerce search pipeline:                                *)
(*   TP2/index.py          index construction (positional index, reviews   *)
(*                         index, feature indexes)                          *)
(*   TP3/search_engine.py  query preparation, candidate filtering, ranking *)
(*   TP1/crawler.py        the crawl loop over a priority frontier         *)
(*                                                                         *)
(* Representation.                                                         *)
(*  - A text is a sequence of raw words (the whitespace-separated pieces   *)
(*    of the Python string); str.lower and the punctuation translation are *)
(*    tables over the vocabulary.  The empty text <<>> stands for every    *)
(*    falsy field value (None, "", missing key).                           *)
(*  - Document keys (id, url) are naturals; 0 stands for every falsy key   *)
(*    (None, "", missing).  The order of the naturals stands for the       *)
(*    native ordering of the keys.                                         *)
(*  - A rating is a natural (numeric rating), NoRating (None or missing    *)
(*    "rating" key) or BadRating (a non-numeric value such as a string).   *)
(*  - A Python dict is a function whose DOMAIN is the set of its keys.     *)
(*  - average_rating is kept in hundredths (400 is 4.0).                   *)
(***************************************************************************)
EXTENDS Integers, Sequences, FiniteSets, TLC

VARIABLES
    documents,                   \* index.py main: documents
    title_position_index,        \* index.py main: title_position_index
    description_position_index,  \* index.py main: description_position_index
    reviews_index,               \* index.py main: reviews_index
    features_indexes,            \* index.py main: features_indexes
    pc,                          \* position of the program the specification runs
    search_indexes,              \* search_engine.py main: indexes
    rank,                        \* the locals of the last rank_documents call:
                                 \* query, tokens, expanded_tokens, candidate_docs,
                                 \* and doc_order, the order the loop met the candidates
    output,                      \* the dict the last rank_documents call returned
    site,                        \* the site crawled: the internal links of each page
    MAX_PAGES_TO_CRAWL,          \* crawler.py global, set by main from max_pages
    visited_urls,                \* crawl_website: visited_urls
    urls_to_visit,               \* crawl_website: urls_to_visit, the heap as a dict
                                 \* from (priority, url) to its number of copies
    crawled_pages_data,          \* crawl_website: crawled_pages_data
    current,                     \* crawl_website: (current_priority, current_url)
    printed,                     \* the [SKIP] and [ERREUR] lines printed so far
    tokenizer_input,             \* the text handed to both tokenizers
    search_tokens,               \* search_engine.py: tokenize, then normalize_tokens
    index_tokens                 \* index.py: preprocess_text

indexVars == <<documents, title_position_index, description_position_index,
               reviews_index, features_indexes>>

searchVars == <<search_indexes, rank, output>>

crawlVars == <<site, MAX_PAGES_TO_CRAWL, visited_urls, urls_to_visit,
               crawled_pages_data, current, printed>>

tokenVars == <<tokenizer_input, search_tokens, index_tokens>>

vars == <<indexVars, pc, searchVars, crawlVars, tokenVars>>

\* ------------------------------------------------------------------ bounds
MaxDocs == 2
MaxLen == 2
MaxReviews == 2

MaxLinks == 2

MaxPages == 3

\* ------------------------------------------------------------- vocabulary
EmptyDict == [x \in {} |-> 0]

NoRating == -1
BadRating == -2

RawWords == {"Energy", "drink!", "the"}

Lower(w) ==
    CASE w = "Energy" -> "energy"
      [] w = "Drink" -> "drink"
      [] w = "The" -> "the"
      [] w = "Chocolate" -> "chocolate"
      [] w = "Sports" -> "sports"
      [] w = "Bar" -> "bar"
      [] w = "America" -> "america"
      [] w = "Nike" -> "nike"
      [] w = "France" -> "france"
      [] w = "U.S.A." -> "u.s.a."
      [] w = "/Product/2" -> "/product/2"
      [] w = "Not" -> "not"
      [] OTHER -> w

StripPunctuation(w) ==
    CASE w = "drink!" -> "drink"
      [] w = "u.s.a." -> "usa"
      [] w = "-" -> ""
      [] OTHER -> w

\* no text has been handed to the tokenizers
TokenizersIdle ==
    /\ tokenizer_input = <<>>
    /\ search_tokens = <<>>
    /\ index_tokens = <<>>

\* MAX_PAGES_TO_CRAWL as the module sets it
DefaultMaxPages == 50

\* the crawler has not been started
CrawlerIdle ==
    /\ site = EmptyDict
    /\ MAX_PAGES_TO_CRAWL = DefaultMaxPages
    /\ visited_urls = {}
    /\ urls_to_visit = EmptyDict
    /\ crawled_pages_data = <<>>
    /\ current = <<>>
    /\ printed = {}

\* ---------------------------------------------------------- TP2/index.py
STOPWORDS == {"the", "a", "an", "and", "or", "of", "to", "in", "on", "for",
              "with", "is", "this", "that", "it"}

NotEmptyWord(w) == w # ""

NotStopword(t) == t \notin STOPWORDS

preprocess_text(text) ==
    IF text = <<>> THEN <<>>
    ELSE LET lowered == [i \in 1..Len(text) |-> Lower(text[i])]
             stripped == [i \in 1..Len(text) |-> StripPunctuation(lowered[i])]
             tokens == SelectSeq(stripped, NotEmptyWord)
         IN SelectSeq(tokens, NotStopword)

\* position_index[token][doc_id].append(position) on a defaultdict of defaultdicts
AppendPosition(position_index, token, doc_id, position) ==
    LET by_doc == IF token \in DOMAIN position_index
                  THEN position_index[token] ELSE EmptyDict
        old == IF doc_id \in DOMAIN by_doc THEN by_doc[doc_id] ELSE <<>>
        new_by_doc == [d \in DOMAIN by_doc \cup {doc_id} |->
                          IF d = doc_id THEN Append(old, position) ELSE by_doc[d]]
    IN [t \in DOMAIN position_index \cup {token} |->
           IF t = token THEN new_by_doc ELSE position_index[t]]

\* EnumerateTokens with the positions counted from 1 (enumerate(tokens, 1))
RECURSIVE EnumerateTokensFromOne(_, _, _, _)
EnumerateTokensFromOne(position_index, doc_id, tokens, position) ==
    IF position >= Len(tokens) THEN position_index
    ELSE EnumerateTokensFromOne(
             AppendPosition(position_index, tokens[position + 1], doc_id, position + 1),
             doc_id, tokens, position + 1)

\* for position, token in enumerate(tokens), from position onwards
RECURSIVE EnumerateTokens(_, _, _, _)
EnumerateTokens(position_index, doc_id, tokens, position) ==
    IF position >= Len(tokens) THEN position_index
    ELSE EnumerateTokens(
             AppendPosition(position_index, tokens[position + 1], doc_id, position),
             doc_id, tokens, position + 1)

FieldOf(doc, field_name) ==
    IF field_name = "title" THEN doc.title ELSE doc.description

\* for doc in documents, from the k-th document onwards
RECURSIVE PositionLoop(_, _, _, _)
PositionLoop(position_index, docs, field_name, k) ==
    IF k > Len(docs) THEN position_index
    ELSE LET doc == docs[k]
             doc_id == doc.id
             field_text == FieldOf(doc, field_name)
         IN IF doc_id = 0 \/ field_text = <<>>
            THEN PositionLoop(position_index, docs, field_name, k + 1)
            ELSE PositionLoop(
                     EnumerateTokens(position_index, doc_id,
                                     preprocess_text(field_text), 0),
                     docs, field_name, k + 1)

build_position_index(docs, field_name) ==
    PositionLoop(EmptyDict, docs, field_name, 1)

\* round(sum / count, 2) in hundredths: Python rounds the exact tie to the even digit
RoundedAverage(total, count) ==
    LET q == (100 * total) \div count
        r == (100 * total) % count
    IN IF 2 * r < count THEN q
       ELSE IF 2 * r > count THEN q + 1
       ELSE IF q % 2 = 0 THEN q ELSE q + 1

RECURSIVE SumRatings(_)
SumRatings(ratings) ==
    IF ratings = <<>> THEN 0 ELSE Head(ratings) + SumRatings(Tail(ratings))

HasRating(rating) == rating # NoRating

IsBadRating(rating) == rating = BadRating

\* the ratings list of one document: every review whose "rating" is not None
ExtractRatings(reviews) == SelectSeq(reviews, HasRating)

\* sum(ratings) raises TypeError as soon as one kept rating is not a number
SumRaises(ratings) == SelectSeq(ratings, IsBadRating) # <<>>

ReviewRecord(ratings) ==
    [review_count |-> Len(ratings),
     average_rating |-> RoundedAverage(SumRatings(ratings), Len(ratings)),
     last_rating |-> ratings[Len(ratings)]]

\* for doc in documents, from the k-th document onwards; raised = TypeError
RECURSIVE ReviewsLoop(_, _, _)
ReviewsLoop(index, docs, k) ==
    IF k > Len(docs) THEN [raised |-> FALSE, index |-> index]
    ELSE LET doc == docs[k]
             url == doc.url
             reviews == doc.reviews
             ratings == ExtractRatings(reviews)
         IN IF url = 0 \/ reviews = <<>> THEN ReviewsLoop(index, docs, k + 1)
            ELSE IF ratings = <<>> THEN ReviewsLoop(index, docs, k + 1)
            ELSE IF SumRaises(ratings) THEN [raised |-> TRUE, index |-> index]
            ELSE ReviewsLoop(
                     [u \in DOMAIN index \cup {url} |->
                         IF u = url THEN ReviewRecord(ratings) ELSE index[u]],
                     docs, k + 1)

build_reviews_index(docs) == ReviewsLoop(EmptyDict, docs, 1)

InList(x, list) == \E i \in 1..Len(list) : list[i] = x

\* one pass of the body of "for feature_name, feature_value in features.items()"
AddFeature(indexes, product_id, feature_name, feature_value) ==
    IF feature_value = "" THEN indexes
    ELSE LET by_value == IF feature_name \in DOMAIN indexes
                         THEN indexes[feature_name] ELSE EmptyDict
             feature_value_normalized == Lower(feature_value)
             old == IF feature_value_normalized \in DOMAIN by_value
                    THEN by_value[feature_value_normalized] ELSE <<>>
             new == IF InList(product_id, old) THEN old ELSE Append(old, product_id)
             new_by_value == [v \in DOMAIN by_value \cup {feature_value_normalized} |->
                                 IF v = feature_value_normalized THEN new ELSE by_value[v]]
         IN [f \in DOMAIN indexes \cup {feature_name} |->
                IF f = feature_name THEN new_by_value ELSE indexes[f]]

\* for feature_name, feature_value in features.items(), over the names left
RECURSIVE FeatureItems(_, _, _, _)
FeatureItems(indexes, product_id, features, names) ==
    IF names = {} THEN indexes
    ELSE LET feature_name == CHOOSE n \in names : TRUE
         IN FeatureItems(
                AddFeature(indexes, product_id, feature_name, features[feature_name]),
                product_id, features, names \ {feature_name})

\* for doc in documents, from the k-th document onwards
RECURSIVE FeaturesLoop(_, _, _)
FeaturesLoop(indexes, docs, k) ==
    IF k > Len(docs) THEN indexes
    ELSE LET doc == docs[k]
             product_id == doc.id
             features == doc.product_features
         IN IF product_id = 0 \/ DOMAIN features = {}
            THEN FeaturesLoop(indexes, docs, k + 1)
            ELSE FeaturesLoop(
                     FeatureItems(indexes, product_id, features, DOMAIN features),
                     docs, k + 1)

build_features_indexes(docs) == FeaturesLoop(EmptyDict, docs, 1)

\* --------------------------------------------------- TP3/search_engine.py
\* stopwords.words("english") of nltk, as far as the vocabulary goes
SearchStopwords ==
    {"i", "me", "my", "we", "our", "you", "your", "he", "him", "his", "she", "her",
     "it", "its", "they", "them", "their", "what", "which", "who", "this", "that",
     "these", "those", "am", "is", "are", "was", "were", "be", "been", "being",
     "have", "has", "had", "do", "does", "did", "a", "an", "the", "and", "but",
     "if", "or", "because", "as", "until", "while", "of", "at", "by", "for",
     "with", "about", "against", "between", "into", "through", "during", "before",
     "after", "above", "below", "to", "from", "up", "down", "in", "out", "on",
     "off", "over", "under", "again", "further", "then", "once", "here", "there",
     "when", "where", "why", "how", "all", "any", "both", "each", "few", "more",
     "most", "other", "some", "such", "no", "nor", "not", "only", "own", "same",
     "so", "than", "too", "very", "s", "t", "can", "will", "just", "don",
     "should", "now"}

tokenize(text) ==
    LET lowered == [i \in 1..Len(text) |-> Lower(text[i])]
        stripped == [i \in 1..Len(text) |-> StripPunctuation(lowered[i])]
    IN SelectSeq(stripped, NotEmptyWord)

NotSearchStopword(t) == t \notin SearchStopwords

normalize_tokens(token_list) == SelectSeq(token_list, NotSearchStopword)

\* for synonym in synonyms[token]: expanded_tokens.add(synonym.lower())
RECURSIVE AddSynonyms(_, _)
AddSynonyms(expanded, synonym_list) ==
    IF synonym_list = <<>> THEN expanded
    ELSE AddSynonyms(expanded \cup {Lower(Head(synonym_list))}, Tail(synonym_list))

\* for token in tokens, over the rest of the list
RECURSIVE ExpandLoop(_, _, _)
ExpandLoop(expanded, token_list, synonyms) ==
    IF token_list = <<>> THEN expanded
    ELSE LET token == Head(token_list)
         IN ExpandLoop(IF token \in DOMAIN synonyms
                       THEN AddSynonyms(expanded, synonyms[token])
                       ELSE expanded,
                       Tail(token_list), synonyms)

Range(list) == {list[i] : i \in 1..Len(list)}

expand_tokens_with_synonyms(token_list, synonyms) ==
    ExpandLoop(Range(token_list), token_list, synonyms)

\* for token in tokens: matching_docs.update(index[token]), over the tokens left
RECURSIVE AnyLoop(_, _, _)
AnyLoop(matching_docs, token_set, index) ==
    IF token_set = {} THEN matching_docs
    ELSE LET token == CHOOSE t \in token_set : TRUE
         IN AnyLoop(IF token \in DOMAIN index
                    THEN matching_docs \cup DOMAIN index[token]
                    ELSE matching_docs,
                    token_set \ {token}, index)

documents_with_any_token(token_set, index) == AnyLoop({}, token_set, index)

\* set.intersection(*doc_sets) of a non-empty list
RECURSIVE Intersection(_)
Intersection(doc_sets) ==
    IF Len(doc_sets) = 1 THEN Head(doc_sets)
    ELSE Head(doc_sets) \cap Intersection(Tail(doc_sets))

\* AllLoop without the early return: a token absent from the index is skipped
RECURSIVE AllLoopSkipAbsent(_, _, _)
AllLoopSkipAbsent(doc_sets, token_list, index) ==
    IF token_list = <<>>
    THEN IF doc_sets # <<>> THEN Intersection(doc_sets) ELSE {}
    ELSE IF Head(token_list) \in DOMAIN index
         THEN AllLoopSkipAbsent(Append(doc_sets, DOMAIN index[Head(token_list)]),
                                Tail(token_list), index)
         ELSE AllLoopSkipAbsent(doc_sets, Tail(token_list), index)

\* for token in tokens, over the rest of the list, with the early return
RECURSIVE AllLoop(_, _, _)
AllLoop(doc_sets, token_list, index) ==
    IF token_list = <<>>
    THEN IF doc_sets # <<>> THEN Intersection(doc_sets) ELSE {}
    ELSE IF Head(token_list) \in DOMAIN index
         THEN AllLoop(Append(doc_sets, DOMAIN index[Head(token_list)]),
                      Tail(token_list), index)
         ELSE {}

\* documents_with_all_tokens that starts from every document of the index and
\* narrows it by the tokens the index knows
documents_with_all_known_tokens(token_list, index) ==
    LET known == SelectSeq(token_list, LAMBDA t : t \in DOMAIN index)
        every == UNION {DOMAIN index[t] : t \in DOMAIN index}
    IN {d \in every : \A i \in 1..Len(known) : d \in DOMAIN index[known[i]]}

documents_with_all_tokens(token_list, index) == AllLoop(<<>>, token_list, index)

\* exact_match_score: 1 when every query token is among the document's tokens
exact_match_score(query_tokens, document_tokens) ==
    IF \A i \in 1..Len(query_tokens) : query_tokens[i] \in document_tokens
    THEN 1 ELSE 0

\* math.log(1 + n) in units of 1/10000
LogTable == <<0, 6931, 10986, 13863, 16094, 17918, 19459, 20794, 21972, 23026>>

Log1p(n) == LogTable[n + 1]

\* dict.get(key, default)
Get(dict, key, default) == IF key \in DOMAIN dict THEN dict[key] ELSE default

\* review_score, in units of 1/100000 (average_rating comes in hundredths)
review_score(review_data) ==
    IF DOMAIN review_data = {} THEN 0
    ELSE LET avg_rating == Get(review_data, "average_rating", 0)
             last_rating == Get(review_data, "last_rating", 0)
             total_reviews == Get(review_data, "total_reviews", 0)
         IN 600 * avg_rating + 30000 * last_rating + Log1p(total_reviews)

\* the inner loop of rank_documents: for token in tokens, in units of 1/100000
RECURSIVE FrequencyScore(_, _, _)
FrequencyScore(token_list, doc_id, idx) ==
    IF token_list = <<>> THEN 0
    ELSE LET token == Head(token_list)
             title_freq == Len(Get(Get(idx.title, token, EmptyDict), doc_id, <<>>))
             desc_freq == Len(Get(Get(idx.description, token, EmptyDict), doc_id, <<>>))
         IN 10 * (2 * Log1p(title_freq) + Log1p(desc_freq))
            + FrequencyScore(Tail(token_list), doc_id, idx)

\* a descending insertion that puts an entry before the entries of equal score
RECURSIVE InsertBeforeEqualScore(_, _)
InsertBeforeEqualScore(sorted, entry) ==
    IF sorted = <<>> THEN <<entry>>
    ELSE IF Head(sorted).score > entry.score
         THEN <<Head(sorted)>> \o InsertBeforeEqualScore(Tail(sorted), entry)
         ELSE <<entry>> \o sorted

\* list.sort(key=score, reverse=True): stable, equal scores keep their order
RECURSIVE InsertByScore(_, _)
InsertByScore(sorted, entry) ==
    IF sorted = <<>> THEN <<entry>>
    ELSE IF Head(sorted).score >= entry.score
         THEN <<Head(sorted)>> \o InsertByScore(Tail(sorted), entry)
         ELSE <<entry>> \o sorted

RECURSIVE SortByScore(_)
SortByScore(results) ==
    IF results = <<>> THEN <<>>
    ELSE InsertByScore(SortByScore(SubSeq(results, 1, Len(results) - 1)),
                       results[Len(results)])

\* sum(len(v) for v in indexes["title"].values())
RECURSIVE TotalDocuments(_, _)
TotalDocuments(index, token_set) ==
    IF token_set = {} THEN 0
    ELSE LET token == CHOOSE t \in token_set : TRUE
         IN Cardinality(DOMAIN index[token]) + TotalDocuments(index, token_set \ {token})

\* the orders in which a set can be iterated
Orders(S) == {order \in [1..Cardinality(S) -> S] : \A i, j \in DOMAIN order :
                                                       order[i] = order[j] => i = j}

\* FilterCandidates without the relaxed filter
FilterCandidatesStrict(token_order, expanded, index) ==
    documents_with_all_tokens(token_order, index)

\* the candidate filter of rank_documents: strict first, relaxed when it is empty
FilterCandidates(token_order, expanded, index) ==
    LET strict == documents_with_all_tokens(token_order, index)
    IN IF strict = {} THEN documents_with_any_token(expanded, index) ELSE strict

ScoreOf(token_list, doc_id, idx) ==
    FrequencyScore(token_list, doc_id, idx)
    + review_score(Get(Get(idx, "reviews", EmptyDict), doc_id, EmptyDict))

\* the scoring loop of rank_documents over the candidates in the order met
ScoredResults(token_list, doc_order, idx) ==
    [i \in 1..Len(doc_order) |->
        [document_id |-> doc_order[i],
         score |-> ScoreOf(token_list, doc_order[i], idx)]]

\* rank_documents(q, search_indexes); a set is iterated in an order of its own
RankDocuments(q) ==
    /\ pc = "run_tests"
    /\ LET token_list == normalize_tokens(tokenize(q))
           expanded == expand_tokens_with_synonyms(
                           token_list, Get(search_indexes, "origin_synonyms", EmptyDict))
       IN \E token_order \in Orders(expanded) :
             LET candidates == FilterCandidates(token_order, expanded,
                                                search_indexes.title)
             IN \E doc_order \in Orders(candidates) :
                   LET results == ScoredResults(token_list, doc_order, search_indexes)
                   IN /\ rank' = [query |-> q, tokens |-> token_list,
                                  expanded_tokens |-> expanded,
                                  candidate_docs |-> candidates,
                                  doc_order |-> doc_order]
                      /\ output' = [query |-> q,
                                    total_documents |->
                                        TotalDocuments(search_indexes.title,
                                                       DOMAIN search_indexes.title),
                                    filtered_documents |-> Cardinality(candidates),
                                    results |-> SortByScore(results)]
    /\ pc' = "save"
    /\ UNCHANGED <<indexVars, search_indexes>>
    /\ UNCHANGED <<crawlVars, tokenVars>>

\* ------------------------------------------------- index.py main, step by step
BuildTitlePositionIndex ==
    /\ pc = "title_position_index"
    /\ title_position_index' = build_position_index(documents, "title")
    /\ pc' = "description_position_index"
    /\ UNCHANGED <<documents, description_position_index, reviews_index,
                   features_indexes>>
    /\ UNCHANGED searchVars
    /\ UNCHANGED <<crawlVars, tokenVars>>

BuildDescriptionPositionIndex ==
    /\ pc = "description_position_index"
    /\ description_position_index' = build_position_index(documents, "description")
    /\ pc' = "reviews_index"
    /\ UNCHANGED <<documents, title_position_index, reviews_index, features_indexes>>
    /\ UNCHANGED searchVars
    /\ UNCHANGED <<crawlVars, tokenVars>>

BuildReviewsIndex ==
    /\ pc = "reviews_index"
    /\ LET built == build_reviews_index(documents)
       IN IF built.raised
          THEN /\ pc' = "TypeError"
               /\ UNCHANGED reviews_index
          ELSE /\ pc' = "features_indexes"
               /\ reviews_index' = built.index
    /\ UNCHANGED <<documents, title_position_index, description_position_index,
                   features_indexes>>
    /\ UNCHANGED searchVars
    /\ UNCHANGED <<crawlVars, tokenVars>>

BuildFeaturesIndexes ==
    /\ pc = "features_indexes"
    /\ features_indexes' = build_features_indexes(documents)
    /\ pc' = "save_index"
    /\ UNCHANGED <<documents, title_position_index, description_position_index,
                   reviews_index>>
    /\ UNCHANGED searchVars
    /\ UNCHANGED <<crawlVars, tokenVars>>

\* ------------------------------------------------------ document collections
Document(id, url, title, description, reviews, product_features) ==
    [id |-> id, url |-> url, title |-> title, description |-> description,
     reviews |-> reviews, product_features |-> product_features]

SeqsUpTo(S, n) == UNION {[1..m -> S] : m \in 0..n}

Texts == SeqsUpTo(RawWords, MaxLen)

Ratings == {NoRating, BadRating, 3, 5}

UrlOf(i) == 10 + i

FixedDescription == <<"the", "drink!", "Energy", "drink!">>

ContextTitles == {<<>>, <<"drink!", "Energy">>, <<"-", "the", "Energy">>}

\* one document whose title ranges over every text, among documents with fixed titles
TextDocs ==
    UNION {UNION {{[i \in 1..n |-> Document(i, UrlOf(i),
                                            IF i = k THEN title ELSE context[i],
                                            FixedDescription, <<>>, EmptyDict)] :
                      title \in Texts, context \in [1..n -> ContextTitles]} :
                  k \in 1..n} : n \in 1..MaxDocs}

KeyTitles == {<<>>, <<"-", "Energy">>}

KeyDescriptions == {<<>>, <<"Energy", "the", "energy">>}

\* documents that differ in the keys they carry
KeyDocs ==
    UNION {{[i \in 1..n |-> Document(id[i] * i, url[i] * UrlOf(i), title[i],
                                     description[i], <<5, 3>>,
                                     [f \in {"brand"} |-> "Nike"])] :
               id \in [1..n -> {0, 1}], url \in [1..n -> {0, 1}],
               title \in [1..n -> KeyTitles],
               description \in [1..n -> KeyDescriptions]} : n \in 1..MaxDocs}

ContextReviews == {<<>>, <<5, 3>>, <<BadRating>>}

\* one document whose reviews range over every rating list, among documents with
\* fixed reviews
ReviewDocs ==
    UNION {UNION {{[i \in 1..n |-> Document(i, UrlOf(i), <<"Energy">>, <<>>,
                                            IF i = k THEN reviews ELSE context[i],
                                            EmptyDict)] :
                      reviews \in SeqsUpTo(Ratings, MaxReviews),
                      context \in [1..n -> ContextReviews]} :
                  k \in 1..n} : n \in 1..MaxDocs}

FeatureNames == {"brand", "origin"}

\* product_features of one document: brand missing, empty or set; origin missing or set
FeatureDicts ==
    {EmptyDict, [f \in {"origin"} |-> "France"]}
    \cup {[f \in {"brand"} |-> brand] : brand \in {"", "Nike", "nike"}}
    \cup {[f \in FeatureNames |-> IF f = "brand" THEN brand ELSE "France"] :
             brand \in {"", "Nike", "nike"}}

Injective(f) == \A i, j \in DOMAIN f : f[i] = f[j] => i = j

\* documents that differ in their id and features; ids are unique, in any order
FeatureDocs ==
    UNION {{[i \in 1..n |-> Document(id[i], UrlOf(id[i]), <<>>, <<>>, <<>>,
                                     product_features[i])] :
               id \in {f \in [1..n -> 1..MaxDocs] : Injective(f)},
               product_features \in [1..n -> FeatureDicts]} : n \in 1..MaxDocs}

Collections == TextDocs \cup KeyDocs \cup ReviewDocs \cup FeatureDocs

InitIndex ==
    /\ documents \in Collections
    /\ title_position_index = EmptyDict
    /\ description_position_index = EmptyDict
    /\ reviews_index = EmptyDict
    /\ features_indexes = EmptyDict
    /\ pc = "title_position_index"
    /\ search_indexes = EmptyDict
    /\ rank = EmptyDict
    /\ output = EmptyDict
    /\ CrawlerIdle
    /\ TokenizersIdle

NextIndex ==
    \/ BuildTitlePositionIndex
    \/ BuildDescriptionPositionIndex
    \/ BuildReviewsIndex
    \/ BuildFeaturesIndexes

SpecIndex == InitIndex /\ [][NextIndex]_vars

\* ------------------------------------------- search_engine.py main, step by step
SearchTitles == {<<"Chocolate", "Energy", "Drink">>, <<"Sports", "Energy", "Bar">>,
                 <<"the", "drink!", "Drink">>}

SearchDescriptions == {<<>>, <<"Energy", "the", "energy">>}

SearchReviews == {<<>>, <<5>>, <<5, 5>>}

\* the documents behind the index files: every index names a document by the same key
SearchDocs ==
    UNION {{[i \in 1..n |-> Document(i, i, title[i], description[i], reviews[i],
                                     EmptyDict)] :
               title \in [1..n -> SearchTitles],
               description \in [1..n -> SearchDescriptions],
               reviews \in [1..n -> SearchReviews]} : n \in 0..MaxDocs}

SynonymMaps == {EmptyDict,
                [t \in {"usa"} |-> <<"America", "U.S.A.">>],
                [t \in {"drink", "cola"} |-> <<"Bar">>]}

Queries == {<<"the">>, <<"energy", "drink">>, <<"gamefuel">>,
            <<"Energy", "gamefuel">>, <<"usa">>, <<"sports", "Drink!">>}

\* load_indexes(): the index files of one document collection and a synonym file
LoadIndexes ==
    /\ pc = "load_indexes"
    /\ \E docs \in SearchDocs, synonyms \in SynonymMaps :
          search_indexes' =
              [title |-> build_position_index(docs, "title"),
               description |-> build_position_index(docs, "description"),
               reviews |-> build_reviews_index(docs).index,
               origin_synonyms |-> synonyms]
    /\ pc' = "run_tests"
    /\ UNCHANGED <<indexVars, rank, output>>
    /\ UNCHANGED <<crawlVars, tokenVars>>

InitSearch ==
    /\ documents = <<>>
    /\ title_position_index = EmptyDict
    /\ description_position_index = EmptyDict
    /\ reviews_index = EmptyDict
    /\ features_indexes = EmptyDict
    /\ pc = "load_indexes"
    /\ search_indexes = EmptyDict
    /\ rank = EmptyDict
    /\ output = EmptyDict
    /\ CrawlerIdle
    /\ TokenizersIdle

NextSearch ==
    \/ LoadIndexes
    \/ \E q \in Queries : RankDocuments(q)

SpecSearch == InitSearch /\ [][NextSearch]_vars

\* ------------------------------------------------------------ TP1/crawler.py
\* the URLs of the site, in ascending string order
Urls == <<"/", "/Product/2", "/about", "/product/1">>

UrlSet == {Urls[i] : i \in 1..Len(Urls)}

\* the place of a URL in the string order
UrlRank(url) == CHOOSE i \in 1..Len(Urls) : Urls[i] = url

\* "product" in text, over the lower-cased URLs of the site
ContainsProduct(text) == text \in {"/product/1", "/product/2"}

\* compute_url_priority without the lower-casing
compute_url_priority_case_sensitive(url) == IF ContainsProduct(url) THEN 0 ELSE 1

compute_url_priority(url) == IF ContainsProduct(Lower(url)) THEN 0 ELSE 1

\* (priority, url) tuples compare by priority, then by url
EntryLess(a, b) == a[1] < b[1] \/ (a[1] = b[1] /\ UrlRank(a[2]) < UrlRank(b[2]))

\* heapq.heappush(heap, entry)
heappush(heap, entry) ==
    [e \in DOMAIN heap \cup {entry} |->
        IF e = entry THEN Get(heap, entry, 0) + 1 ELSE heap[e]]

\* the entry heapq.heappop returns: the smallest tuple of the heap
HeapMin(heap) ==
    CHOOSE e \in DOMAIN heap : \A o \in DOMAIN heap : e = o \/ EntryLess(e, o)

\* a pop that leaves the entry in the heap
HeapKeep(heap, entry) == heap

\* the heap heapq.heappop leaves: one copy of the entry is removed
HeapRemove(heap, entry) ==
    [e \in {x \in DOMAIN heap : x # entry \/ heap[x] > 1} |->
        IF e = entry THEN heap[e] - 1 ELSE heap[e]]

\* the while condition with the limit included
LoopGuardInclusive ==
    urls_to_visit # EmptyDict /\ Cardinality(visited_urls) <= MAX_PAGES_TO_CRAWL

\* while urls_to_visit and len(visited_urls) < MAX_PAGES_TO_CRAWL
LoopGuard ==
    urls_to_visit # EmptyDict /\ Cardinality(visited_urls) < MAX_PAGES_TO_CRAWL

\* for link in links: push the links that are not visited yet
RECURSIVE PushLinks(_, _, _)
PushLinks(heap, links, visited) ==
    IF links = <<>> THEN heap
    ELSE LET link_url == Head(links)
         IN PushLinks(IF link_url \notin visited
                      THEN heappush(heap, <<compute_url_priority(link_url), link_url>>)
                      ELSE heap,
                      Tail(links), visited)

\* main: sets the global limit; crawl_website: empty structures, start URL pushed
Main(start_url, max_pages) ==
    /\ pc = "main"
    /\ MAX_PAGES_TO_CRAWL' = max_pages
    /\ visited_urls' = {}
    /\ crawled_pages_data' = <<>>
    /\ urls_to_visit' = heappush(EmptyDict, <<compute_url_priority(start_url), start_url>>)
    /\ pc' = "while"
    /\ UNCHANGED <<site, current, printed>>
    /\ UNCHANGED <<indexVars, searchVars, tokenVars>>

\* the loop condition holds: the smallest entry is popped
Pop ==
    /\ pc = "while"
    /\ LoopGuard
    /\ current' = HeapMin(urls_to_visit)
    /\ urls_to_visit' = HeapRemove(urls_to_visit, HeapMin(urls_to_visit))
    /\ pc' = "popped"
    /\ UNCHANGED <<site, MAX_PAGES_TO_CRAWL, visited_urls, crawled_pages_data, printed>>
    /\ UNCHANGED <<indexVars, searchVars, tokenVars>>

\* if current_url in visited_urls: continue
SkipVisited ==
    /\ pc = "popped"
    /\ current[2] \in visited_urls
    /\ pc' = "while"
    /\ UNCHANGED crawlVars
    /\ UNCHANGED <<indexVars, searchVars, tokenVars>>

\* can_parse_page(current_url) is False: robots.txt refuses or cannot be read
RobotsRefused ==
    /\ pc = "popped"
    /\ current[2] \notin visited_urls
    /\ printed' = printed \cup {<<"SKIP", current[2]>>}
    /\ pc' = "while"
    /\ UNCHANGED <<site, MAX_PAGES_TO_CRAWL, visited_urls, urls_to_visit,
                   crawled_pages_data, current>>
    /\ UNCHANGED <<indexVars, searchVars, tokenVars>>

\* fetch_url_content(current_url) is None: network or HTTP error
FetchFailed ==
    /\ pc = "popped"
    /\ current[2] \notin visited_urls
    /\ printed' = printed \cup {<<"ERREUR", current[2]>>}
    /\ pc' = "while"
    /\ UNCHANGED <<site, MAX_PAGES_TO_CRAWL, visited_urls, urls_to_visit,
                   crawled_pages_data, current>>
    /\ UNCHANGED <<indexVars, searchVars, tokenVars>>

\* the page is fetched: marked visited, recorded, its links pushed
CrawlPage ==
    /\ pc = "popped"
    /\ current[2] \notin visited_urls
    /\ LET links == site[current[2]]
       IN /\ visited_urls' = visited_urls \cup {current[2]}
          /\ crawled_pages_data' =
                Append(crawled_pages_data, [url |-> current[2], outgoing_links |-> links])
          /\ urls_to_visit' = PushLinks(urls_to_visit, links, visited_urls')
    /\ pc' = "while"
    /\ UNCHANGED <<site, MAX_PAGES_TO_CRAWL, current, printed>>
    /\ UNCHANGED <<indexVars, searchVars, tokenVars>>

\* the loop condition fails: return crawled_pages_data
Return ==
    /\ pc = "while"
    /\ ~LoopGuard
    /\ pc' = "returned"
    /\ UNCHANGED crawlVars
    /\ UNCHANGED <<indexVars, searchVars, tokenVars>>

\* -------------------------------------------------------------------- sites
\* the internal links one page can carry: every list of at most MaxLinks URLs
LinkLists == SeqsUpTo(UrlSet, MaxLinks)

\* a ring through every page, and a home page that links everywhere (one link
\* twice) with pages that link back to it
BaseSites ==
    {[u \in UrlSet |-> <<Urls[(UrlRank(u) % Len(Urls)) + 1]>>],
     [u \in UrlSet |-> IF u = "/" THEN <<"/about", "/product/1", "/Product/2", "/about">>
                       ELSE <<"/">>]}

\* one page whose links range over every list, among the pages of a base site
Sites ==
    {[u \in UrlSet |-> IF u = page THEN links ELSE base[u]] :
        base \in BaseSites, page \in UrlSet, links \in LinkLists}

StartUrls == {"/", "/about"}

PageLimits == (0..MaxPages) \cup {DefaultMaxPages}

InitCrawl ==
    /\ documents = <<>>
    /\ title_position_index = EmptyDict
    /\ description_position_index = EmptyDict
    /\ reviews_index = EmptyDict
    /\ features_indexes = EmptyDict
    /\ search_indexes = EmptyDict
    /\ rank = EmptyDict
    /\ output = EmptyDict
    /\ pc = "main"
    /\ site \in Sites
    /\ MAX_PAGES_TO_CRAWL = DefaultMaxPages
    /\ visited_urls = {}
    /\ urls_to_visit = EmptyDict
    /\ crawled_pages_data = <<>>
    /\ current = <<>>
    /\ printed = {}
    /\ TokenizersIdle

NextCrawl ==
    \/ \E start_url \in StartUrls, max_pages \in PageLimits : Main(start_url, max_pages)
    \/ Pop
    \/ SkipVisited
    \/ RobotsRefused
    \/ FetchFailed
    \/ CrawlPage
    \/ Return

SpecCrawl == InitCrawl /\ [][NextCrawl]_vars

\* a running program takes its next step
SpecCrawlFair == SpecCrawl /\ WF_vars(NextCrawl)

\* ---------------------------------------------- the two tokenizers, side by side
\* the words of the texts tokenized on both sides
TokenizerWords == {"Energy", "drink!", "the", "Not", "all", "-"}

TokenizerTexts == SeqsUpTo(TokenizerWords, MaxLen)

\* search_engine.py: tokens = tokenize(query)
Tokenize ==
    /\ pc = "tokenize"
    /\ search_tokens' = tokenize(tokenizer_input)
    /\ pc' = "normalize_tokens"
    /\ UNCHANGED <<tokenizer_input, index_tokens>>
    /\ UNCHANGED <<indexVars, searchVars, crawlVars>>

\* search_engine.py: normalize_tokens(tokens)
NormalizeTokens ==
    /\ pc = "normalize_tokens"
    /\ search_tokens' = normalize_tokens(search_tokens)
    /\ pc' = "preprocess_text"
    /\ UNCHANGED <<tokenizer_input, index_tokens>>
    /\ UNCHANGED <<indexVars, searchVars, crawlVars>>

\* index.py: preprocess_text(field_text) on the same text
PreprocessText ==
    /\ pc = "preprocess_text"
    /\ index_tokens' = preprocess_text(tokenizer_input)
    /\ pc' = "tokenized"
    /\ UNCHANGED <<tokenizer_input, search_tokens>>
    /\ UNCHANGED <<indexVars, searchVars, crawlVars>>

InitTokenizers ==
    /\ documents = <<>>
    /\ title_position_index = EmptyDict
    /\ description_position_index = EmptyDict
    /\ reviews_index = EmptyDict
    /\ features_indexes = EmptyDict
    /\ search_indexes = EmptyDict
    /\ rank = EmptyDict
    /\ output = EmptyDict
    /\ CrawlerIdle
    /\ pc = "tokenize"
    /\ tokenizer_input \in TokenizerTexts
    /\ search_tokens = <<>>
    /\ index_tokens = <<>>

NextTokenizers ==
    \/ Tokenize
    \/ NormalizeTokens
    \/ PreprocessText

SpecTokenizers == InitTokenizers /\ [][NextTokenizers]_vars

\* ------------------------------------------------------ claims on index.py
TitlePositionIndexBuilt == pc # "title_position_index"

DescriptionPositionIndexBuilt ==
    pc \notin {"title_position_index", "description_position_index"}

ReviewsIndexBuilt == pc \in {"features_indexes", "save_index"}

ReviewsIndexRan == pc \in {"features_indexes", "save_index", "TypeError"}

FeaturesIndexesBuilt == pc = "save_index"

IsNumeric(rating) == rating >= 0

NumericRatings(reviews) == SelectSeq(reviews, IsNumeric)

\* every recorded position list is non-empty, strictly ascending and made of
\* occurrences of the token among the kept tokens of the document's field; and
\* every kept occurrence is recorded
PositionIndexExact(position_index, field_name) ==
    /\ \A t \in DOMAIN position_index : \A d \in DOMAIN position_index[t] :
          LET positions == position_index[t][d]
          IN /\ positions # <<>>
             /\ \A i \in 1..(Len(positions) - 1) : positions[i] < positions[i + 1]
             /\ \E k \in 1..Len(documents) :
                   /\ documents[k].id = d
                   /\ LET kept == preprocess_text(FieldOf(documents[k], field_name))
                      IN \A i \in 1..Len(positions) :
                            /\ positions[i] < Len(kept)
                            /\ kept[positions[i] + 1] = t
    /\ \A k \in 1..Len(documents) :
          LET kept == preprocess_text(FieldOf(documents[k], field_name))
              d == documents[k].id
          IN d # 0 =>
                \A p \in 1..Len(kept) :
                   /\ kept[p] \in DOMAIN position_index
                   /\ d \in DOMAIN position_index[kept[p]]
                   /\ InList(p - 1, position_index[kept[p]][d])

\* C6: in the index returned by build_position_index, every position list is
\* non-empty and strictly ascending, each position is an index at which the token
\* occurs among the kept (non-stopword) tokens of the document's field, and every
\* kept occurrence is recorded.
C6_PositionsExact ==
    /\ TitlePositionIndexBuilt => PositionIndexExact(title_position_index, "title")
    /\ DescriptionPositionIndexBuilt =>
          PositionIndexExact(description_position_index, "description")

\* a stopword before a kept token does not consume a position, and a token that
\* occurs twice has both positions recorded
C6_Witness ==
    /\ DescriptionPositionIndexBuilt
    /\ \E k \in 1..Len(documents) :
          /\ documents[k].title = <<"the", "Energy">>
          /\ title_position_index["energy"][documents[k].id] = <<0>>
          /\ description_position_index["drink"][documents[k].id] = <<0, 2>>

KeyOf(doc) == IF doc.id # 0 THEN doc.id ELSE doc.url

\* C7: the positional index keys a document by its id, and by its url when the id
\* is absent: a document with a url and a field that has kept tokens is in the
\* index under that key.
C7_KeyedByIdOrUrl ==
    TitlePositionIndexBuilt =>
        \A k \in 1..Len(documents) :
           LET kept == preprocess_text(documents[k].title)
           IN (KeyOf(documents[k]) # 0 /\ kept # <<>>) =>
                 \A p \in 1..Len(kept) :
                    /\ kept[p] \in DOMAIN title_position_index
                    /\ KeyOf(documents[k]) \in DOMAIN title_position_index[kept[p]]

\* C4: build_reviews_index emits a record for every document that has a key; a
\* document with no reviews or no usable rating gets review_count = 0 with absent
\* average_rating and last_rating.
C4_RecordForEveryDocument ==
    ReviewsIndexBuilt =>
        \A k \in 1..Len(documents) :
           LET doc == documents[k]
           IN doc.url # 0 =>
                 /\ doc.url \in DOMAIN reviews_index
                 /\ NumericRatings(doc.reviews) = <<>> =>
                       /\ reviews_index[doc.url].review_count = 0
                       /\ reviews_index[doc.url].average_rating = NoRating
                       /\ reviews_index[doc.url].last_rating = NoRating

\* C5: once build_reviews_index has run, every document with a key and at least
\* one numeric rating has a record whose review_count is the number of its numeric
\* ratings and whose last_rating is the last of them in review order.
C5_CountAndLastRating ==
    ReviewsIndexRan =>
        \A k \in 1..Len(documents) :
           LET doc == documents[k]
               numeric == NumericRatings(doc.reviews)
           IN (doc.url # 0 /\ numeric # <<>>) =>
                 /\ doc.url \in DOMAIN reviews_index
                 /\ reviews_index[doc.url].review_count = Len(numeric)
                 /\ reviews_index[doc.url].last_rating = numeric[Len(numeric)]

\* C8: in the feature index, every list of document identifiers has no duplicates
\* and is sorted ascending, whatever the order of the input documents.
C8_SortedUniqueIds ==
    FeaturesIndexesBuilt =>
        \A f \in DOMAIN features_indexes : \A v \in DOMAIN features_indexes[f] :
           LET ids == features_indexes[f][v]
           IN \A i \in 1..(Len(ids) - 1) : ids[i] < ids[i + 1]

\* -------------------------------------------------- claims on search_engine.py
Ranked == pc = "save"

PostingDocs(index, t) == IF t \in DOMAIN index THEN DOMAIN index[t] ELSE {}

IndexedDocs(index) == UNION {DOMAIN index[t] : t \in DOMAIN index}

\* the documents listed under every token of token_set
AndSet(token_set, index) ==
    {d \in IndexedDocs(index) : \A t \in token_set : d \in PostingDocs(index, t)}

\* the documents listed under some token of token_set
OrSet(token_set, index) ==
    {d \in IndexedDocs(index) : \E t \in token_set : d \in PostingDocs(index, t)}

ResultDocs == {output.results[i].document_id : i \in 1..Len(output.results)}

\* C1: the candidate set rank_documents ranks is the AND set of the expanded
\* tokens over the title index when that set is non-empty, and the OR set
\* otherwise (the OR set is taken as it is, not filtered again); an empty expanded
\* token set gives an empty candidate set.
C1_AndThenOr ==
    Ranked =>
        LET expanded == rank.expanded_tokens
            title == search_indexes.title
        IN /\ rank.candidate_docs =
                 IF expanded = {} THEN {}
                 ELSE IF AndSet(expanded, title) # {} THEN AndSet(expanded, title)
                 ELSE OrSet(expanded, title)
           /\ ResultDocs = rank.candidate_docs
           /\ output.filtered_documents = Cardinality(rank.candidate_docs)

\* the relaxed filter decided the candidates: no document has every expanded
\* token, some document has one
C1_Witness ==
    /\ Ranked
    /\ Cardinality(rank.expanded_tokens) >= 2
    /\ AndSet(rank.expanded_tokens, search_indexes.title) = {}
    /\ rank.candidate_docs # {}
    /\ ResultDocs = rank.candidate_docs

\* C2: for every non-empty token set (the expanded tokens and their subsets, in
\* every list order) and both text indexes, documents_with_all_tokens is a subset
\* of documents_with_any_token.
C2_AllSubsetOfAny ==
    Ranked =>
        \A token_set \in (SUBSET rank.expanded_tokens) \ {{}} :
           \A token_order \in Orders(token_set) :
              /\ documents_with_all_tokens(token_order, search_indexes.title)
                    \subseteq documents_with_any_token(token_set, search_indexes.title)
              /\ documents_with_all_tokens(token_order, search_indexes.description)
                    \subseteq documents_with_any_token(token_set,
                                                       search_indexes.description)

\* the strict filter keeps some documents and drops others that the relaxed one has
C2_Witness ==
    /\ Ranked
    /\ \E token_order \in Orders(rank.expanded_tokens) :
          LET all == documents_with_all_tokens(token_order, search_indexes.title)
              any == documents_with_any_token(rank.expanded_tokens,
                                              search_indexes.title)
          IN all # {} /\ all # any /\ all \subseteq any

\* C3: if some expanded token is absent from the index, documents_with_all_tokens
\* is empty whatever the other tokens match; and when every expanded token is
\* absent from the title index, rank_documents returns filtered_documents = 0 and
\* an empty results list.
C3_AbsentToken ==
    Ranked =>
        LET expanded == rank.expanded_tokens
            title == search_indexes.title
        IN /\ (\E t \in expanded : t \notin DOMAIN title) =>
                 \A token_order \in Orders(expanded) :
                    documents_with_all_tokens(token_order, title) = {}
           /\ (\A t \in expanded : t \notin DOMAIN title) =>
                 /\ output.filtered_documents = 0
                 /\ output.results = <<>>

\* a query whose tokens are in no title of a non-empty index came back empty
C3_Witness ==
    /\ Ranked
    /\ rank.expanded_tokens # {}
    /\ DOMAIN search_indexes.title # {}
    /\ \A t \in rank.expanded_tokens : t \notin DOMAIN search_indexes.title
    /\ output.filtered_documents = 0
    /\ output.results = <<>>

\* the normal form of one word: lower case, punctuation stripped (tokenize)
NormalizedForm(w) == StripPunctuation(Lower(w))

\* C9: the expanded set holds every original token, the normalized form of every
\* synonym of every original token that has an entry, and nothing else; with an
\* empty synonym map it is the set of original tokens.
C9_ExpansionExact ==
    Ranked =>
        LET synonyms == search_indexes.origin_synonyms
            original == Range(rank.tokens)
        IN rank.expanded_tokens =
              original \cup
              UNION {{NormalizedForm(synonyms[t][i]) : i \in 1..Len(synonyms[t])} :
                        t \in original \cap DOMAIN synonyms}

\* the review signal of the ranking design, over a record of the reviews index
ReviewSignal(review_data) ==
    600 * Get(review_data, "average_rating", 0)
    + 30000 * Get(review_data, "last_rating", 0)
    + Log1p(Get(review_data, "review_count", 0))

\* C10: the review signal rank_documents adds to a candidate's score is
\* 0.6*average_rating + 0.3*last_rating + 0.1*ln(1+review_count), read from the
\* document's record in the reviews index (fields review_count, average_rating,
\* last_rating), an absent component counting as 0.
C10_ReviewSignal ==
    Ranked =>
        \A i \in 1..Len(output.results) :
           LET entry == output.results[i]
               review_data == Get(search_indexes.reviews, entry.document_id, EmptyDict)
           IN entry.score =
                 FrequencyScore(rank.tokens, entry.document_id, search_indexes)
                 + ReviewSignal(review_data)

\* the place of a document in the order the scoring loop met the candidates
DiscoveryRank(doc_id) == CHOOSE i \in 1..Len(rank.doc_order) : rank.doc_order[i] = doc_id

\* C11: the results list holds exactly one entry per candidate document, its
\* scores never increase from one entry to the next, and entries of equal score
\* stand in the order in which the loop met their candidates (stable sort).
C11_OneEntrySortedStable ==
    Ranked =>
        LET results == output.results
        IN /\ Len(results) = Cardinality(rank.candidate_docs)
           /\ ResultDocs = rank.candidate_docs
           /\ \A i, j \in 1..Len(results) :
                 i < j =>
                    /\ results[i].document_id # results[j].document_id
                    /\ results[i].score >= results[j].score
                    /\ results[i].score = results[j].score =>
                          DiscoveryRank(results[i].document_id)
                             < DiscoveryRank(results[j].document_id)

\* two candidates of equal score were met, and returned, in descending key order
C11_Witness ==
    /\ Ranked
    /\ Len(output.results) >= 2
    /\ \E i \in 1..(Len(output.results) - 1) :
          /\ output.results[i].score = output.results[i + 1].score
          /\ output.results[i].document_id > output.results[i + 1].document_id
          /\ DiscoveryRank(output.results[i].document_id)
                < DiscoveryRank(output.results[i + 1].document_id)

\* C12: the result list rank_documents returned is the list every run on the
\* same query and indexes returns: whatever order the candidate set is iterated
\* in, equal scores included, the sorted list is the same.
C12_SameOrderEveryRun ==
    Ranked =>
        \A doc_order \in Orders(rank.candidate_docs) :
           SortByScore(ScoredResults(rank.tokens, doc_order, search_indexes))
              = output.results

\* the weight 5.0 of the exact-match boost, in units of 1/100000
ExactMatchBoost == 500000

\* the tokens of a document's title, read back from the title index
TitleTokens(doc_id) ==
    {t \in DOMAIN search_indexes.title : doc_id \in DOMAIN search_indexes.title[t]}

ScenarioATitles == <<(<<"Chocolate", "Energy", "Drink">>), (<<"Sports", "Energy", "Bar">>)>>

\* the indexes are those of the two-document collection of Scenario A, without
\* synonyms, and the query was "energy drink"
ScenarioA ==
    /\ Ranked
    /\ rank.query = <<"energy", "drink">>
    /\ search_indexes.origin_synonyms = EmptyDict
    /\ search_indexes.title =
          build_position_index(
              [i \in 1..2 |-> Document(i, i, ScenarioATitles[i], <<>>, <<>>, EmptyDict)],
              "title")

\* C13: the final score of a candidate is the frequency and review signals plus
\* 5.0 when its title holds every original query token, and plus nothing when
\* its title lacks one; and in Scenario A the first document is in the results
\* list, before the second one wherever that one is listed.
C13_ExactMatchBoost ==
    Ranked =>
        LET results == output.results
        IN /\ \A i \in 1..Len(results) :
                 results[i].score =
                    ScoreOf(rank.tokens, results[i].document_id, search_indexes)
                    + ExactMatchBoost
                        * exact_match_score(rank.tokens,
                                            TitleTokens(results[i].document_id))
           /\ ScenarioA =>
                 \E i \in 1..Len(results) :
                    /\ results[i].document_id = 1
                    /\ \A j \in 1..Len(results) :
                          results[j].document_id = 2 => i < j

\* ------------------------------------------------------ claims on crawler.py
CrawlLoop == pc \in {"while", "popped", "returned"}

\* the URLs of the returned page list, in order
CrawledUrls == [i \in 1..Len(crawled_pages_data) |-> crawled_pages_data[i].url]

\* C14: in every state of the crawl loop the number of visited URLs and the
\* number of recorded pages are equal and at most MAX_PAGES_TO_CRAWL, and no URL
\* is recorded twice.
C14_PageLimit ==
    CrawlLoop =>
        /\ Cardinality(visited_urls) <= MAX_PAGES_TO_CRAWL
        /\ Len(crawled_pages_data) <= MAX_PAGES_TO_CRAWL
        /\ Len(crawled_pages_data) = Cardinality(visited_urls)
        /\ \A i, j \in 1..Len(crawled_pages_data) :
              CrawledUrls[i] = CrawledUrls[j] => i = j

\* the crawl stopped at the limit with URLs still waiting, one of them a page
\* already recorded
C14_Witness ==
    /\ pc = "returned"
    /\ MAX_PAGES_TO_CRAWL >= 2
    /\ Len(crawled_pages_data) = MAX_PAGES_TO_CRAWL
    /\ \E e \in DOMAIN urls_to_visit : e[2] \in visited_urls
    /\ \E e \in DOMAIN urls_to_visit : e[2] \notin visited_urls

\* the URLs waiting in the frontier
Frontier == {e[2] : e \in DOMAIN urls_to_visit}

\* C15: when the URL just taken from the frontier does not contain "product"
\* in any letter case, no URL containing "product" is waiting in the frontier.
C15_ProductFirst ==
    (pc = "popped" /\ ~ContainsProduct(Lower(current[2]))) =>
        \A url \in Frontier : ~ContainsProduct(Lower(url))

\* a product URL written in upper case was taken while a plain URL that sorts
\* before it was waiting, and later a plain URL was taken
C15_Witness ==
    /\ pc = "popped"
    /\ ~ContainsProduct(Lower(current[2]))
    /\ Frontier # {}
    /\ \E i \in 1..Len(crawled_pages_data) :
          /\ CrawledUrls[i] = "/Product/2"
          /\ \E j \in 1..Len(crawled_pages_data) :
                j > i /\ ~ContainsProduct(Lower(CrawledUrls[j]))

\* C18: crawl_website returns, whatever the site of the model, the outcomes of
\* the robots.txt checks and of the fetches, cycles and links to refused URLs.
C18_Terminates == <>(pc = "returned")

\* the crawl returned with the frontier drained, on a site where a URL that was
\* refused or failed was linked again and crawled, and another was skipped as
\* already visited
C18_Witness ==
    /\ pc = "returned"
    /\ urls_to_visit = EmptyDict
    /\ \E url \in visited_urls : <<"SKIP", url>> \in printed
    /\ \E url \in visited_urls : <<"ERREUR", url>> \in printed
    /\ \E url \in UrlSet \ visited_urls : <<"SKIP", url>> \in printed

\* C17: build_reviews_index completes on every collection, also with missing and
\* non-numeric ratings among the review records: every document with a key and at
\* least one numeric rating gets the record of its numeric ratings alone,
\* whatever the ratings of the other documents.
C17_BadRatingsSkipped ==
    ReviewsIndexRan =>
        /\ pc # "TypeError"
        /\ \A k \in 1..Len(documents) :
              LET doc == documents[k]
                  numeric == NumericRatings(doc.reviews)
              IN (doc.url # 0 /\ numeric # <<>>) =>
                    /\ doc.url \in DOMAIN reviews_index
                    /\ reviews_index[doc.url] = ReviewRecord(numeric)

\* ------------------------------------------------- claims on both tokenizers
\* C16: for every text the tokens of the query side (tokenize, then
\* normalize_tokens) are the tokens of the index side (preprocess_text); so a
\* one-word text that the index side keeps is kept by the query side.
C16_TokenizersAgree ==
    pc = "tokenized" =>
        /\ search_tokens = index_tokens
        /\ (Len(tokenizer_input) = 1 /\ index_tokens # <<>>) => search_tokens # <<>>

====
